---- MODULE Spec2Model ----
\* Model of src/scripts/pre-uninstall.js (deleteConfig) as published in the
\* article "Gracefully clean up configuration files in Node.js based CLI
\* applications": the NPM preuninstall hook that removes the configuration
\* file of the CLI and its directory after an interactive confirmation.
EXTENDS Integers, Sequences, FiniteSets, TLC

\* ---------------------------------------------------------------- bounds
MaxTokens == 2
MaxRuns == 2

\* ------------------------------------------------------- console messages
KeepMsg == "Wise choice! We will keep the app configuration for future use."
SuccessMsg == "The app configuration has been successfully deleted."
FailedMsg == "Failed to delete the app configuration."
ManualMsg == "Manually delete the following directory: "

\* ------------------------------------------------------------ file system
\* A path is a sequence of components; the file system is the set of the
\* paths that exist.
ConfigRoot == <<"home", "suresh", ".config">>
StorePath == ConfigRoot \o <<"jenni-nodejs", "config.json">>

dirname(p) == SubSeq(p, 1, Len(p) - 1)

OtherEntry == dirname(StorePath) \o <<"other">>
Unrelated == ConfigRoot \o <<"misc">>

\* States of the disk the script can be started on: an entry exists only
\* inside an existing directory.
Disks ==
    {d \in SUBSET {ConfigRoot, dirname(StorePath), StorePath, OtherEntry, Unrelated} :
        /\ ConfigRoot \in d
        /\ \A p \in d : p # ConfigRoot => dirname(p) \in d}

\* Entries whose removal the operating system refuses (EACCES).
Locks == SUBSET {StorePath, dirname(StorePath)}

existsSync(disk, p) == p \in disk

unlinkSync(disk, lk, p) ==
    IF p \notin disk THEN [err |-> "ENOENT", fs |-> disk]
    ELSE IF p \in lk THEN [err |-> "EACCES", fs |-> disk]
    ELSE [err |-> "ok", fs |-> disk \ {p}]

\* Variant: the removal takes the directory with all it holds.
rmdirSync_recursive(disk, lk, p) ==
    IF p \notin disk THEN [err |-> "ENOENT", fs |-> disk]
    ELSE IF p \in lk THEN [err |-> "EACCES", fs |-> disk]
    ELSE [err |-> "ok",
          fs |-> {q \in disk : ~(Len(q) >= Len(p) /\ SubSeq(q, 1, Len(p)) = p)}]

rmdirSync(disk, lk, p) ==
    IF p \notin disk THEN [err |-> "ENOENT", fs |-> disk]
    ELSE IF \E q \in disk : q # ConfigRoot /\ dirname(q) = p
         THEN [err |-> "ENOTEMPTY", fs |-> disk]
    ELSE IF p \in lk THEN [err |-> "EACCES", fs |-> disk]
    ELSE [err |-> "ok", fs |-> disk \ {p}]

\* Variant: the store does not create its directory.
NewConf_nomkdir(disk) == [path |-> StorePath, fs |-> disk]

\* new Conf(): the store's path, and the directory it creates implicitly
\* when there is no configuration yet.
NewConf(disk) ==
    [path |-> StorePath,
     fs |-> IF StorePath \in disk THEN disk ELSE disk \cup {dirname(StorePath)}]

\* ------------------------------------------------ process.env.npm_config_argv
Tokens == {"uninstall", "update", "preuninstall"}
TokenLists == UNION {[1..n -> Tokens] : n \in 0..MaxTokens}

\* Texts that contain the characters "uninstall".
HasUninstallText == {"uninstall", "preuninstall"}

\* Values of the "original" property of the decoded object.
Originals ==
    {[t |-> "missing", v |-> <<>>], [t |-> "number", v |-> <<>>], [t |-> "null", v |-> <<>>]}
    \cup {[t |-> "list", v |-> l] : l \in TokenLists}
    \cup {[t |-> "string", v |-> <<s>>] : s \in Tokens}

\* JSON documents: an object with "original" and "cooked", or a bare null or
\* number.
JsonValues ==
    {[t |-> "object", original |-> o, cooked |-> c] :
        o \in Originals, c \in {<<>>, <<"uninstall">>}}
    \cup {[t |-> "null", original |-> [t |-> "missing", v |-> <<>>], cooked |-> <<>>],
          [t |-> "number", original |-> [t |-> "missing", v |-> <<>>], cooked |-> <<>>]}

EmptyObject == [t |-> "object", original |-> [t |-> "missing", v |-> <<>>], cooked |-> <<>>]

\* The variable is unset, the empty string, text that is not JSON, or the
\* text of a JSON document.
EnvValues ==
    {[kind |-> "absent", doc |-> EmptyObject], [kind |-> "empty", doc |-> EmptyObject],
     [kind |-> "garbage", doc |-> EmptyObject]}
    \cup {[kind |-> "json", doc |-> j] : j \in JsonValues}

\* env.npm_config_argv || '{}'
Argv(e) ==
    IF e.kind \in {"absent", "empty"} THEN [kind |-> "json", doc |-> EmptyObject] ELSE e

\* JSON.parse(argv)
JSONparse(text) ==
    IF text.kind = "json" THEN [err |-> "none", value |-> text.doc]
    ELSE [err |-> "SyntaxError", value |-> EmptyObject]

\* Variant: the tokens are taken from "cooked".
Destructure_cooked(value) ==
    IF value.t = "null" THEN [err |-> "TypeError", original |-> [t |-> "missing", v |-> <<>>]]
    ELSE IF value.t = "object" THEN [err |-> "none", original |-> [t |-> "list", v |-> value.cooked]]
    ELSE [err |-> "none", original |-> [t |-> "list", v |-> <<>>]]

\* const { original = [] } = <value>
Destructure(value) ==
    IF value.t = "null" THEN [err |-> "TypeError", original |-> [t |-> "missing", v |-> <<>>]]
    ELSE IF value.t = "object" /\ value.original.t # "missing"
         THEN [err |-> "none", original |-> value.original]
    ELSE [err |-> "none", original |-> [t |-> "list", v |-> <<>>]]

\* Variant: a token matches when it holds the characters "uninstall".
Includes_substring(original) ==
    IF original.t \in {"list", "string"}
    THEN [err |-> "none",
          found |-> \E i \in 1..Len(original.v) : original.v[i] \in HasUninstallText]
    ELSE [err |-> "TypeError", found |-> FALSE]

\* original.includes('uninstall')
Includes(original) ==
    IF original.t = "list"
    THEN [err |-> "none", found |-> \E i \in 1..Len(original.v) : original.v[i] = "uninstall"]
    ELSE IF original.t = "string"
    THEN [err |-> "none", found |-> original.v[1] \in HasUninstallText]
    ELSE [err |-> "TypeError", found |-> FALSE]

\* The gate of deleteConfig: "throw" with the error, "return" or "proceed".
Gate(e) ==
    LET parsed == JSONparse(Argv(e))
        d == Destructure(parsed.value)
        inc == Includes(d.original)
    IN  IF parsed.err # "none" THEN [go |-> "throw", err |-> parsed.err]
        ELSE IF d.err # "none" THEN [go |-> "throw", err |-> d.err]
        ELSE IF inc.err # "none" THEN [go |-> "throw", err |-> inc.err]
        ELSE IF ~inc.found THEN [go |-> "return", err |-> "none"]
        ELSE [go |-> "proceed", err |-> "none"]

\* ------------------------------------------------------------------ prompt
Answers == {"yes", "no", "enter", "abort"}

\* Variant: the prompt defaults to "yes".
initial_true == TRUE

initial == FALSE

\* The object the confirm prompt resolves to: "confirmation" is true, false
\* or, when the prompt is aborted, not there ("undefined").
getDeleteConfigConfirmation(a) ==
    CASE a = "yes" -> [confirmation |-> "true"]
      [] a = "no" -> [confirmation |-> "false"]
      [] a = "enter" -> [confirmation |-> IF initial THEN "true" ELSE "false"]
      [] OTHER -> [confirmation |-> "undefined"]

\* Variant: only an explicit "no" declines.
Not_strictFalse(c) == c = "false"

\* Variant: the test of the confirmation is inverted.
Not_inverted(c) == c = "true"

\* !confirmation
Not(c) == c # "true"

\* ------------------------------------------------------------------- state
VARIABLES
    env,            \* process.env.npm_config_argv of the running invocation
    main,           \* require.main === module
    fs,             \* the disk
    locked,         \* entries that cannot be removed
    pc,             \* "idle", "awaiting" (the prompt is open) or "done"
    isConfigExists, \* local of deleteConfig
    configFilePath, \* local of deleteConfig
    configDirPath,  \* local of deleteConfig
    answer,         \* what the user answered to the prompt, "none" before
    log,            \* what the invocation did, in order
    result,         \* the promise of deleteConfig: "pending", "resolved", "rejected"
    exit,           \* "running", "normal", or "propagated" (rejection left to the caller)
    stderr,         \* the error console.error printed, "none" if none
    fs0,            \* the disk when the invocation started
    runs,           \* invocations started so far
    prev,           \* summary of the previous invocation
    execWrapper,    \* Lambda: AWS_LAMBDA_EXEC_WRAPPER of the function configuration
    sandbox,        \* Lambda: "none" or "ready" (the runtime is started)
    procEnv,        \* Lambda: process.env of the runtime
    launchArgs,     \* Lambda: the startup command Lambda issued
    runtimeArgs,    \* Lambda: the command the runtime was started with
    boot,           \* Lambda: what the startup did, in order
    responses,      \* Lambda: the answers to the invocations so far
    deploys         \* Lambda: configuration changes so far

cleanupVars == <<env, main, fs, locked, pc, isConfigExists, configFilePath, configDirPath,
                 answer, log, result, exit, stderr, fs0, runs, prev>>

lambdaVars == <<execWrapper, sandbox, procEnv, launchArgs, runtimeArgs, boot, responses,
                deploys>>

vars == <<cleanupVars, lambdaVars>>

\* The handler configured at deployment, serverless.yml: handler.
ConfiguredHandler == "original.handler"

\* No function is running.
LambdaIdle ==
    /\ execWrapper = "unset"
    /\ sandbox = "none"
    /\ procEnv = [_HANDLER |-> ConfiguredHandler]
    /\ launchArgs = <<>>
    /\ runtimeArgs = <<>>
    /\ boot = <<>>
    /\ responses = <<>>
    /\ deploys = 0

Ev(op, path, val) == [op |-> op, path |-> path, val |-> val]

\* The recorded command tokens, npm_config_argv.original, hold "uninstall".
HasUninstallToken(e) ==
    /\ e.kind = "json"
    /\ e.doc.t = "object"
    /\ e.doc.original.t = "list"
    /\ \E i \in 1..Len(e.doc.original.v) : e.doc.original.v[i] = "uninstall"

NoRun == [ran |-> FALSE, uninstall |-> FALSE, fs0 |-> {}, log |-> <<>>,
          result |-> "pending", exit |-> "running"]

Summary == [ran |-> TRUE, uninstall |-> HasUninstallToken(env), fs0 |-> fs0, log |-> log,
            result |-> result, exit |-> exit]

Init ==
    /\ env = [kind |-> "absent", doc |-> EmptyObject]
    /\ main \in BOOLEAN
    /\ fs \in Disks
    /\ locked \in Locks
    /\ pc = "idle"
    /\ isConfigExists = FALSE
    /\ configFilePath = <<>>
    /\ configDirPath = <<>>
    /\ answer = "none"
    /\ log = <<>>
    /\ result = "pending"
    /\ exit = "running"
    /\ stderr = "none"
    /\ fs0 = fs
    /\ runs = 0
    /\ prev = NoRun
    /\ LambdaIdle

\* Variant: the success message is printed when the handler is left, too.
Catch_thenSuccess(lg, dir) ==
    lg \o <<Ev("console.log", <<>>, FailedMsg), Ev("console.log", dir, ManualMsg),
            Ev("console.log", <<>>, SuccessMsg)>>

\* Variant: the handler prints the failure without the remediation.
Catch_noRemedy(lg, dir) == Append(lg, Ev("console.log", <<>>, FailedMsg))

\* catch (err) { console.log(...); console.log(...) }
Catch(lg, dir) ==
    lg \o <<Ev("console.log", <<>>, FailedMsg), Ev("console.log", dir, ManualMsg)>>

\* Variant: an error of the directory removal is swallowed.
RemoveDirAndReport_ignoreError(disk, lk, lg, existed, dir) ==
    LET r == rmdirSync(disk, lk, dir)
        lg1 == Append(lg, Ev("rmdirSync", dir, r.err))
    IN  [fs |-> r.fs,
         log |-> IF existed THEN Append(lg1, Ev("console.log", <<>>, SuccessMsg)) ELSE lg1]

\* Variant: success is reported whether or not the file was there.
RemoveDirAndReport_successAlways(disk, lk, lg, existed, dir) ==
    LET r == rmdirSync(disk, lk, dir)
        lg1 == Append(lg, Ev("rmdirSync", dir, r.err))
    IN  IF r.err # "ok" THEN [fs |-> disk, log |-> Catch(lg1, dir)]
        ELSE [fs |-> r.fs, log |-> Append(lg1, Ev("console.log", <<>>, SuccessMsg))]

\* Variant: the directory is left alone.
RemoveDirAndReport_noRmdir(disk, lk, lg, existed, dir) ==
    [fs |-> disk,
     log |-> IF existed THEN Append(lg, Ev("console.log", <<>>, SuccessMsg)) ELSE lg]

\* Variant: the directory is removed only when the file was there.
RemoveDirAndReport_conditional(disk, lk, lg, existed, dir) ==
    LET r == rmdirSync(disk, lk, dir)
        lg1 == Append(lg, Ev("rmdirSync", dir, r.err))
    IN  IF ~existed THEN [fs |-> disk, log |-> lg]
        ELSE IF r.err # "ok" THEN [fs |-> disk, log |-> Catch(lg1, dir)]
        ELSE [fs |-> r.fs, log |-> Append(lg1, Ev("console.log", <<>>, SuccessMsg))]

\* Variant: success is reported before the directory is removed.
RemoveDirAndReport_successFirst(disk, lk, lg, existed, dir) ==
    LET r == rmdirSync(disk, lk, dir)
        lg0 == IF existed THEN Append(lg, Ev("console.log", <<>>, SuccessMsg)) ELSE lg
        lg1 == Append(lg0, Ev("rmdirSync", dir, r.err))
    IN  IF r.err # "ok" THEN [fs |-> disk, log |-> Catch(lg1, dir)]
        ELSE [fs |-> r.fs, log |-> lg1]

\* fs.rmdirSync(configDirPath); if (isConfigExists) console.log(success),
\* inside the try block.
RemoveDirAndReport(disk, lk, lg, existed, dir) ==
    LET r == rmdirSync(disk, lk, dir)
        lg1 == Append(lg, Ev("rmdirSync", dir, r.err))
    IN  IF r.err # "ok" THEN [fs |-> disk, log |-> Catch(lg1, dir)]
        ELSE [fs |-> r.fs,
              log |-> IF existed THEN Append(lg1, Ev("console.log", <<>>, SuccessMsg))
                      ELSE lg1]

\* Variant: the promise is left without a handler.
TopLevel_nocatch(isMain, res) == IF res = "rejected" THEN "propagated" ELSE "normal"

\* if (require.main === module) deleteConfig().catch(console.error)
\* else module.exports = deleteConfig
TopLevel(isMain, res) ==
    IF res = "rejected" THEN (IF isMain THEN "normal" ELSE "propagated") ELSE "normal"

Printed(isMain, res, err) == IF isMain /\ res = "rejected" THEN err ELSE "none"

\* One invocation of deleteConfig(env), run up to its return, its throw or
\* its await of the prompt.
Invoke(e) ==
    /\ pc \in {"idle", "done"}
    /\ runs < MaxRuns
    /\ runs' = runs + 1
    /\ prev' = IF pc = "done" THEN Summary ELSE prev
    /\ env' = e
    /\ fs0' = fs
    /\ answer' = "none"
    /\ UNCHANGED <<main, locked>>
    /\ UNCHANGED lambdaVars
    /\ LET g == Gate(e) IN
       CASE g.go = "throw" ->
              /\ result' = "rejected"
              /\ exit' = TopLevel(main, "rejected")
              /\ stderr' = Printed(main, "rejected", g.err)
              /\ pc' = "done"
              /\ log' = <<>>
              /\ isConfigExists' = FALSE
              /\ configFilePath' = <<>>
              /\ configDirPath' = <<>>
              /\ UNCHANGED fs
         [] g.go = "return" ->
              /\ result' = "resolved"
              /\ exit' = TopLevel(main, "resolved")
              /\ stderr' = "none"
              /\ pc' = "done"
              /\ log' = <<>>
              /\ isConfigExists' = FALSE
              /\ configFilePath' = <<>>
              /\ configDirPath' = <<>>
              /\ UNCHANGED fs
         [] OTHER ->
              LET store == NewConf(fs)
                  file == store.path
                  dir == dirname(file)
                  found == existsSync(store.fs, file)
                  lg == <<Ev("existsSync", file, IF found THEN "true" ELSE "false")>>
              IN  /\ configFilePath' = file
                  /\ configDirPath' = dir
                  /\ isConfigExists' = found
                  /\ stderr' = "none"
                  /\ IF found
                     THEN /\ pc' = "awaiting"
                          /\ log' = Append(lg, Ev("prompt", <<>>, "confirm"))
                          /\ result' = "pending"
                          /\ exit' = "running"
                          /\ fs' = store.fs
                     ELSE LET t == RemoveDirAndReport(store.fs, locked, lg, found, dir)
                          IN  /\ pc' = "done"
                              /\ log' = t.log
                              /\ fs' = t.fs
                              /\ result' = "resolved"
                              /\ exit' = TopLevel(main, "resolved")

\* Variant: the declined branch prints its message and goes on.
Answer_noReturn(a) ==
    /\ pc = "awaiting"
    /\ answer' = a
    /\ pc' = "done"
    /\ result' = "resolved"
    /\ exit' = TopLevel(main, "resolved")
    /\ UNCHANGED lambdaVars
    /\ UNCHANGED <<env, main, locked, isConfigExists, configFilePath, configDirPath,
                   stderr, fs0, runs, prev>>
    /\ LET c == getDeleteConfigConfirmation(a).confirmation
           lg0 == IF Not(c) THEN Append(log, Ev("console.log", <<>>, KeepMsg)) ELSE log
           u == unlinkSync(fs, locked, configFilePath)
           lg == Append(lg0, Ev("unlinkSync", configFilePath, u.err))
       IN  IF u.err # "ok"
           THEN /\ log' = Catch(lg, configDirPath)
                /\ UNCHANGED fs
           ELSE LET t == RemoveDirAndReport(u.fs, locked, lg, isConfigExists, configDirPath)
                IN  /\ log' = t.log
                    /\ fs' = t.fs

\* Variant: without an explicit yes or no the prompt is shown again.
Answer_reprompt(a) ==
    /\ pc = "awaiting"
    /\ answer' = a
    /\ UNCHANGED lambdaVars
    /\ UNCHANGED <<env, main, locked, isConfigExists, configFilePath, configDirPath,
                   stderr, fs0, runs, prev>>
    /\ IF a \in {"enter", "abort"}
       THEN UNCHANGED <<pc, result, exit, log, fs>>
       ELSE /\ pc' = "done"
            /\ result' = "resolved"
            /\ exit' = TopLevel(main, "resolved")
            /\ LET c == getDeleteConfigConfirmation(a).confirmation IN
               IF Not(c)
               THEN /\ log' = Append(log, Ev("console.log", <<>>, KeepMsg))
                    /\ UNCHANGED fs
               ELSE LET u == unlinkSync(fs, locked, configFilePath)
                        lg == Append(log, Ev("unlinkSync", configFilePath, u.err))
                    IN  IF u.err # "ok"
                        THEN /\ log' = Catch(lg, configDirPath)
                             /\ UNCHANGED fs
                        ELSE LET t == RemoveDirAndReport(u.fs, locked, lg, isConfigExists,
                                                         configDirPath)
                             IN  /\ log' = t.log
                                 /\ fs' = t.fs

\* The user answers the prompt and deleteConfig runs to its end.
Answer(a) ==
    /\ pc = "awaiting"
    /\ answer' = a
    /\ pc' = "done"
    /\ result' = "resolved"
    /\ exit' = TopLevel(main, "resolved")
    /\ UNCHANGED lambdaVars
    /\ UNCHANGED <<env, main, locked, isConfigExists, configFilePath, configDirPath,
                   stderr, fs0, runs, prev>>
    /\ LET c == getDeleteConfigConfirmation(a).confirmation IN
       IF Not(c)
       THEN /\ log' = Append(log, Ev("console.log", <<>>, KeepMsg))
            /\ UNCHANGED fs
       ELSE LET u == unlinkSync(fs, locked, configFilePath)
                lg == Append(log, Ev("unlinkSync", configFilePath, u.err))
            IN  IF u.err # "ok"
                THEN /\ log' = Catch(lg, configDirPath)
                     /\ UNCHANGED fs
                ELSE LET t == RemoveDirAndReport(u.fs, locked, lg, isConfigExists,
                                                 configDirPath)
                     IN  /\ log' = t.log
                         /\ fs' = t.fs

Next ==
    \/ \E e \in EnvValues : Invoke(e)
    \/ \E a \in Answers : Answer(a)

Spec == Init /\ [][Next]_vars

\* The user answers an open prompt sooner or later.
FairSpec == Spec /\ WF_vars(\E a \in Answers : Answer(a))

\* ------------------------------------------ the Lambda handler override
\* Model of the sample application of "AWS Lambda: Dynamically Overriding the
\* Handler": the function is deployed with handler original.handler and the
\* wrapper script named by AWS_LAMBDA_EXEC_WRAPPER starts the runtime.
MaxArgs == 2
MaxInvocations == 3
MaxDeploys == 2

WrapperPath == "/var/task/wrapper-script"
OverrideHandler == "override.handler"
MessagePrefix == "This response is coming from the handler: "

\* The startup command Lambda issues: the runtime's path, options, and the
\* script that loads the handler.
RuntimeOptions == {"--expose-gc", "--max-old-space-size=922"}
StartupCommands ==
    {<<"/var/lang/bin/node">> \o o \o <<"/var/runtime/index.mjs">> :
        o \in UNION {[1..n -> RuntimeOptions] : n \in 0..MaxArgs}}

\* Variant: the runtime is started with its path only.
WrapperScript_dropArgs(environ, argv) ==
    [stdout |-> <<"_HANDLER => ", environ._HANDLER>>,
     environ |-> [environ EXCEPT !._HANDLER = OverrideHandler],
     exec |-> <<argv[1]>>,
     steps |-> <<"echo", "export", "exec">>]

\* Variant: the script starts the runtime without the export.
WrapperScript_noExport(environ, argv) ==
    [stdout |-> <<"_HANDLER => ", environ._HANDLER>>,
     environ |-> environ,
     exec |-> argv,
     steps |-> <<"echo", "exec">>]

\* wrapper-script:  echo "_HANDLER => $_HANDLER"
\*                  export _HANDLER="override.handler"
\*                  exec "$@"
WrapperScript(environ, argv) ==
    [stdout |-> <<"_HANDLER => ", environ._HANDLER>>,
     environ |-> [environ EXCEPT !._HANDLER = OverrideHandler],
     exec |-> argv,
     steps |-> <<"echo", "export", "exec">>]

\* handler(event) of original.js and of override.js.
handler(environ) ==
    [statusCode |-> 200, message |-> <<MessagePrefix, environ._HANDLER>>]

\* The cleanup script is not running.
CleanupIdle ==
    /\ env = [kind |-> "absent", doc |-> EmptyObject]
    /\ main = TRUE
    /\ fs = {ConfigRoot}
    /\ locked = {}
    /\ pc = "idle"
    /\ isConfigExists = FALSE
    /\ configFilePath = <<>>
    /\ configDirPath = <<>>
    /\ answer = "none"
    /\ log = <<>>
    /\ result = "pending"
    /\ exit = "running"
    /\ stderr = "none"
    /\ fs0 = fs
    /\ runs = 0
    /\ prev = NoRun

\* The function as deployed, serverless.yml: with the wrapper configured, or
\* with the variable taken out.
LambdaInit ==
    /\ CleanupIdle
    /\ execWrapper \in {WrapperPath, "unset"}
    /\ sandbox = "none"
    /\ procEnv = [_HANDLER |-> ConfiguredHandler]
    /\ launchArgs = <<>>
    /\ runtimeArgs = <<>>
    /\ boot = <<>>
    /\ responses = <<>>
    /\ deploys = 0

\* The configuration of the function is changed: the variable is set or
\* removed, and the running execution environment is given up.
UpdateConfiguration(w) ==
    /\ deploys < MaxDeploys
    /\ w # execWrapper
    /\ deploys' = deploys + 1
    /\ execWrapper' = w
    /\ sandbox' = "none"
    /\ UNCHANGED <<procEnv, launchArgs, runtimeArgs, boot, responses>>
    /\ UNCHANGED cleanupVars

\* Lambda initialises an execution environment: it sets _HANDLER to the
\* configured handler and starts the runtime, through the wrapper script when
\* AWS_LAMBDA_EXEC_WRAPPER names one.
ColdStart(cmd) ==
    /\ sandbox = "none"
    /\ sandbox' = "ready"
    /\ launchArgs' = cmd
    /\ LET environ == [_HANDLER |-> ConfiguredHandler] IN
       IF execWrapper # "unset"
       THEN LET w == WrapperScript(environ, cmd)
            IN  /\ procEnv' = w.environ
                /\ runtimeArgs' = w.exec
                /\ boot' = w.steps
       ELSE /\ procEnv' = environ
            /\ runtimeArgs' = cmd
            /\ boot' = <<"exec">>
    /\ UNCHANGED <<execWrapper, responses, deploys>>
    /\ UNCHANGED cleanupVars

\* One invocation of the function through the endpoint.
Request ==
    /\ sandbox = "ready"
    /\ Len(responses) < MaxInvocations
    /\ responses' = Append(responses,
                           [wrapper |-> execWrapper, response |-> handler(procEnv)])
    /\ UNCHANGED <<execWrapper, sandbox, procEnv, launchArgs, runtimeArgs, boot, deploys>>
    /\ UNCHANGED cleanupVars

LambdaNext ==
    \/ \E w \in {WrapperPath, "unset"} : UpdateConfiguration(w)
    \/ \E cmd \in StartupCommands : ColdStart(cmd)
    \/ Request

LambdaSpec == LambdaInit /\ [][LambdaNext]_vars

\* ------------------------------------------------- vocabulary of the claims
ConfigDir == dirname(StorePath)

ErrorCodes == {"ENOENT", "EACCES", "ENOTEMPTY"}

Count(lg, op) == Cardinality({i \in 1..Len(lg) : lg[i].op = op})

Said(lg, msg) == \E i \in 1..Len(lg) : lg[i].op = "console.log" /\ lg[i].val = msg

Did(lg, op, val) == \E i \in 1..Len(lg) : lg[i].op = op /\ lg[i].val = val

Failed(lg, op) == \E i \in 1..Len(lg) : lg[i].op = op /\ lg[i].val \in ErrorCodes

\* The failure message followed by the remediation message naming the
\* configuration directory.
Remediation(lg) ==
    /\ Said(lg, FailedMsg)
    /\ \E i \in 1..Len(lg) :
          lg[i].op = "console.log" /\ lg[i].val = ManualMsg /\ lg[i].path = ConfigDir

\* The recorded tokens are a list (none recorded: the empty list) without
\* "uninstall".
LacksUninstall(e) ==
    \/ e.kind \in {"absent", "empty"}
    \/ /\ e.kind = "json"
       /\ e.doc.t = "object"
       /\ \/ e.doc.original.t = "missing"
          \/ /\ e.doc.original.t = "list"
             /\ \A i \in 1..Len(e.doc.original.v) : e.doc.original.v[i] # "uninstall"

\* The environment lets both removals through.
Removable == StorePath \notin locked /\ ConfigDir \notin locked /\ OtherEntry \notin fs0

\* ------------------------------------------------------------------ claims

\* C1: an invocation whose recorded command tokens do not contain
\* "uninstall" returns immediately: it never opens the prompt, and when it
\* is over the disk is as it was, nothing was done or printed and the promise
\* is resolved.
C1_GatedOutNoEffect ==
    LacksUninstall(env) /\ runs > 0 =>
        /\ pc = "done"
        /\ fs = fs0
        /\ log = <<>>
        /\ result = "resolved"
        /\ stderr = "none"

C1_Witness ==
    /\ pc = "done"
    /\ env.kind = "json"
    /\ env.doc.original.t = "list"
    /\ env.doc.original.v = <<"update", "preuninstall">>
    /\ StorePath \in fs

\* C2 as stated: "uninstall" present, file present, confirmation accepted:
\* at the end the file and its directory are absent and the success message
\* was emitted.
C2_Original ==
    pc = "done" /\ HasUninstallToken(env) /\ StorePath \in fs0 /\ answer = "yes" =>
        /\ StorePath \notin fs
        /\ ConfigDir \notin fs
        /\ Said(log, SuccessMsg)

\* C2 amended: under the same conditions, when both removals go through the
\* file and its directory are absent and the success message, and no failure
\* message, was emitted; when a removal is refused the success message is not
\* emitted and the failure message is.
C2_AcceptedRemovesBoth ==
    pc = "done" /\ HasUninstallToken(env) /\ StorePath \in fs0 /\ answer = "yes" =>
        IF Removable
        THEN /\ StorePath \notin fs
             /\ ConfigDir \notin fs
             /\ Said(log, SuccessMsg)
             /\ ~Said(log, FailedMsg)
        ELSE /\ ~Said(log, SuccessMsg)
             /\ Remediation(log)

C2_Witness ==
    /\ pc = "done"
    /\ HasUninstallToken(env)
    /\ StorePath \in fs0
    /\ answer = "yes"
    /\ Removable
    /\ ConfigDir \notin fs
    /\ Said(log, SuccessMsg)

\* C3: "uninstall" present, file present, confirmation declined: at the end
\* the file and the directory are still there (the disk is as it was), the
\* informational message was printed and the success message was not.
C3_DeclinedKeepsFile ==
    pc = "done" /\ HasUninstallToken(env) /\ StorePath \in fs0
                /\ answer \in {"no", "enter"} =>
        /\ StorePath \in fs
        /\ ConfigDir \in fs
        /\ fs = fs0
        /\ Count(log, "unlinkSync") = 0
        /\ Count(log, "rmdirSync") = 0
        /\ Said(log, KeepMsg)
        /\ ~Said(log, SuccessMsg)

C3_Witness ==
    /\ pc = "done"
    /\ HasUninstallToken(env)
    /\ StorePath \in fs0
    /\ answer = "no"
    /\ StorePath \in fs
    /\ Said(log, KeepMsg)

\* C4: "uninstall" present and the file absent: the prompt is never opened
\* and the run attempts the removal of the configuration directory exactly
\* once.
C4_NoFileRmdirOnce ==
    HasUninstallToken(env) /\ StorePath \notin fs0 /\ runs > 0 =>
        /\ pc = "done"
        /\ Count(log, "prompt") = 0
        /\ Cardinality({i \in 1..Len(log) :
                           log[i].op = "rmdirSync" /\ log[i].path = ConfigDir}) = 1
        /\ Count(log, "rmdirSync") = 1

C4_Witness ==
    /\ pc = "done"
    /\ HasUninstallToken(env)
    /\ StorePath \notin fs0
    /\ ConfigDir \notin fs0
    /\ Did(log, "rmdirSync", "ok")

\* C5: when the existence check, the file deletion or the directory removal
\* of a run fails with an error, the promise of deleteConfig is resolved all
\* the same and the failure message and the remediation message naming the
\* configuration directory were emitted.
C5_FsErrorReported ==
    pc = "done" /\ (Failed(log, "existsSync") \/ Failed(log, "unlinkSync")
                    \/ Failed(log, "rmdirSync")) =>
        /\ result = "resolved"
        /\ exit = "normal"
        /\ Remediation(log)

C5_Witness ==
    /\ pc = "done"
    /\ Did(log, "unlinkSync", "EACCES")
    /\ result = "resolved"

\* C6: run as the main module, the invocation ends normally for every value
\* of npm_config_argv and every disk and answer: a rejection of deleteConfig
\* is taken by the top-level handler and never goes past it.
C6_ExitsNormally ==
    main => /\ exit # "propagated"
            /\ pc = "done" => exit = "normal"
            /\ result = "rejected" => stderr \in {"SyntaxError", "TypeError"}

C6_Witness ==
    /\ main
    /\ pc = "done"
    /\ env.kind = "garbage"
    /\ result = "rejected"
    /\ exit = "normal"

\* Two invocations in sequence, both with "uninstall" recorded, the first
\* started with the configuration file absent, the second over.
TwiceFileAbsent ==
    /\ pc = "done"
    /\ prev.ran
    /\ prev.uninstall
    /\ HasUninstallToken(env)
    /\ StorePath \notin prev.fs0

\* C7 as stated: both runs make one directory-removal attempt, show no prompt
\* and surface no error (no failure message, no exception).
C7_Original ==
    TwiceFileAbsent =>
        /\ Count(prev.log, "rmdirSync") = 1 /\ Count(log, "rmdirSync") = 1
        /\ Count(prev.log, "prompt") = 0 /\ Count(log, "prompt") = 0
        /\ ~Said(prev.log, FailedMsg) /\ ~Said(log, FailedMsg)
        /\ prev.result = "resolved" /\ result = "resolved"

\* C7 amended: both runs do and print the same: one directory-removal attempt
\* with the same result, no prompt and no exception; neither emits the failure
\* message when the directory can be removed (it holds no other entry and its
\* removal is not refused), and both emit it when it cannot.
C7_TwiceSameOutcome ==
    TwiceFileAbsent =>
        /\ log = prev.log
        /\ Count(log, "rmdirSync") = 1
        /\ Count(log, "prompt") = 0
        /\ prev.result = "resolved" /\ result = "resolved"
        /\ prev.exit = "normal" /\ exit = "normal"
        /\ Said(log, FailedMsg) <=> (OtherEntry \in prev.fs0 \/ ConfigDir \in locked)

C7_Witness ==
    /\ TwiceFileAbsent
    /\ ConfigDir \in prev.fs0
    /\ Did(prev.log, "rmdirSync", "ok")
    /\ Did(log, "rmdirSync", "ok")
    /\ ConfigDir \notin fs

\* C8: an invocation performs at most one file deletion and at most one
\* directory deletion, on the configuration file and on its parent directory
\* only, and no entry of the disk other than these two is created or removed.
C8_OnlyConfigTouched ==
    /\ Count(log, "unlinkSync") <= 1
    /\ Count(log, "rmdirSync") <= 1
    /\ \A i \in 1..Len(log) :
          /\ log[i].op = "unlinkSync" => log[i].path = StorePath
          /\ log[i].op = "rmdirSync" => log[i].path = dirname(StorePath)
    /\ (fs0 \ fs) \cup (fs \ fs0) \subseteq {StorePath, dirname(StorePath)}
    /\ Cardinality(fs0 \ fs) <= 2

C8_Witness ==
    /\ pc = "done"
    /\ StorePath \in fs0
    /\ StorePath \notin fs
    /\ OtherEntry \in fs
    /\ Unrelated \in fs
    /\ Did(log, "rmdirSync", "ENOTEMPTY")

\* C9 as stated: in every run that deleted the file the success message is
\* emitted, and in every run in which a step fails the failure message naming
\* the directory is emitted.
C9_Original ==
    pc = "done" =>
        /\ Did(log, "unlinkSync", "ok") => Said(log, SuccessMsg)
        /\ Failed(log, "unlinkSync") \/ Failed(log, "rmdirSync") => Remediation(log)

\* C9 amended: in every run that deleted the file and then removed the
\* directory the success message is emitted, and in every run in which the
\* file deletion or the directory removal fails the failure message naming
\* the directory is emitted and the success message is not.
C9_Reporting ==
    pc = "done" =>
        /\ Did(log, "unlinkSync", "ok") /\ Did(log, "rmdirSync", "ok")
              => Said(log, SuccessMsg) /\ ~Said(log, FailedMsg)
        /\ Failed(log, "unlinkSync") \/ Failed(log, "rmdirSync")
              => Remediation(log) /\ ~Said(log, SuccessMsg)

C9_Witness ==
    /\ pc = "done"
    /\ Did(log, "unlinkSync", "ok")
    /\ Did(log, "rmdirSync", "EACCES")
    /\ Remediation(log)

\* The gate lets the environment through: "uninstall" is among the recorded
\* tokens, or the recorded value is a text holding "uninstall".
PassesGate(e) ==
    \/ HasUninstallToken(e)
    \/ /\ e.kind = "json"
       /\ e.doc.t = "object"
       /\ e.doc.original.t = "string"
       /\ e.doc.original.v[1] \in HasUninstallText

\* C10: the prompt is opened at most once in an invocation, and only when the
\* gate passed and the configuration file exists; its default answer is "no":
\* a run whose user gives no explicit "yes" never deletes the file.
C10_PromptOnceDefaultNo ==
    /\ Count(log, "prompt") <= 1
    /\ Count(log, "prompt") = 1 => PassesGate(env) /\ StorePath \in fs0
    /\ pc = "awaiting" => Count(log, "prompt") = 1
    /\ pc = "done" /\ answer # "yes" =>
          /\ Count(log, "unlinkSync") = 0
          /\ StorePath \in fs0 => StorePath \in fs

C10_Witness ==
    /\ pc = "done"
    /\ Count(log, "prompt") = 1
    /\ answer = "enter"
    /\ StorePath \notin locked
    /\ StorePath \in fs

\* Position of a step in the startup, 0 when it did not happen.
StepAt(b, step) == IF \E i \in 1..Len(b) : b[i] = step
                   THEN CHOOSE i \in 1..Len(b) : b[i] = step ELSE 0

\* C11: with AWS_LAMBDA_EXEC_WRAPPER naming the wrapper script, the script
\* sets _HANDLER to "override.handler" before it starts the runtime, the
\* runtime is started with the startup command Lambda issued, unchanged, and
\* every invocation answers 200 with a message naming override.handler; with
\* the variable removed the script is not run and every invocation's message
\* names original.handler.
C11_HandlerOverride ==
    /\ sandbox = "ready" => runtimeArgs = launchArgs
    /\ sandbox = "ready" /\ execWrapper # "unset" =>
          /\ StepAt(boot, "export") > 0
          /\ StepAt(boot, "export") < StepAt(boot, "exec")
          /\ procEnv._HANDLER = "override.handler"
    /\ sandbox = "ready" /\ execWrapper = "unset" =>
          /\ boot = <<"exec">>
          /\ procEnv._HANDLER = "original.handler"
    /\ \A i \in 1..Len(responses) :
          /\ responses[i].response.statusCode = 200
          /\ responses[i].response.message =
                <<MessagePrefix, IF responses[i].wrapper = "unset"
                                 THEN "original.handler" ELSE "override.handler">>

C11_Witness ==
    /\ Len(responses) = 2
    /\ responses[1].wrapper = WrapperPath
    /\ responses[1].response.message[2] = "override.handler"
    /\ responses[2].wrapper = "unset"
    /\ responses[2].response.message[2] = "original.handler"
    /\ Len(launchArgs) = 4

\* An event with this operation and value comes before position i.
Before(lg, i, op, val) == \E j \in 1..(i - 1) : lg[j].op = op /\ lg[j].val = val

\* C12: within an invocation the file is deleted only after the gate passed,
\* the file was found to exist and the confirmation was accepted; the removal
\* of the directory is attempted only after the file deletion succeeded or
\* the file was found absent; and nothing is removed after a declined
\* confirmation or after a failure was reported.
C12_Ordering ==
    /\ \A i \in 1..Len(log) :
          /\ log[i].op = "unlinkSync" =>
                /\ PassesGate(env)
                /\ Before(log, i, "existsSync", "true")
                /\ Before(log, i, "prompt", "confirm")
                /\ answer = "yes"
          /\ log[i].op = "rmdirSync" =>
                \/ Before(log, i, "unlinkSync", "ok")
                \/ Before(log, i, "existsSync", "false") /\ Count(log, "unlinkSync") = 0
          /\ log[i].op \in {"unlinkSync", "rmdirSync"} =>
                /\ ~Before(log, i, "console.log", KeepMsg)
                /\ ~Before(log, i, "console.log", FailedMsg)
    /\ Said(log, KeepMsg) => fs = fs0 /\ log[Len(log)].val = KeepMsg
    /\ Said(log, FailedMsg) => log[Len(log)].val = ManualMsg

C12_Witness ==
    /\ pc = "done"
    /\ Len(log) = 5
    /\ log[3].op = "unlinkSync" /\ log[3].val = "ok"
    /\ log[4].op = "rmdirSync" /\ log[4].val = "ok"
    /\ log[5].val = SuccessMsg

\* The decoded value records its tokens as a list, or records none.
ListShaped(e) ==
    \/ e.kind \in {"absent", "empty"}
    \/ /\ e.kind = "json"
       /\ e.doc.t = "object"
       /\ e.doc.original.t \in {"missing", "list"}

\* C13: the cleanup proceeds exactly when an element of the "original" list of
\* the decoded npm_config_argv equals "uninstall"; an absent or empty
\* variable, or an object without "original", counts as the empty list and is
\* gated out; what "cooked" holds makes no difference.
C13_GateIsMembership ==
    runs > 0 /\ ListShaped(env) =>
        /\ result # "rejected"
        /\ log # <<>> <=> HasUninstallToken(env)
        /\ env.kind \in {"absent", "empty"} \/ env.doc.original.t = "missing" => log = <<>>

C13_Witness ==
    /\ pc = "done"
    /\ env.kind = "json"
    /\ env.doc.t = "object"
    /\ env.doc.cooked = <<"uninstall">>
    /\ env.doc.original = [t |-> "list", v |-> <<"update", "preuninstall">>]
    /\ log = <<>>
    /\ StorePath \in fs

\* C14: every invocation terminates: a gated-out run and a run with the file
\* absent are over without waiting, a run with the file present is over once
\* the user has answered, and no step of a run is done twice.
C14_Terminates ==
    /\ [](runs > 0 /\ (LacksUninstall(env) \/ StorePath \notin fs0) => pc = "done")
    /\ [](\A op \in {"existsSync", "prompt", "unlinkSync", "rmdirSync"} : Count(log, op) <= 1)
    /\ [](\A m \in {KeepMsg, SuccessMsg, FailedMsg, ManualMsg} :
             Cardinality({i \in 1..Len(log) : log[i].val = m}) <= 1)
    /\ (pc = "awaiting") ~> (pc = "done")

C14_Witness ==
    /\ pc = "done"
    /\ answer = "abort"
    /\ runs = 2
    /\ Count(log, "prompt") = 1

\* C15: in an invocation at most one of the informational message, the
\* success message and the failure message is emitted, and the success
\* message only after the file deletion and the directory removal succeeded.
C15_MessagesExclusive ==
    /\ Cardinality({m \in {KeepMsg, SuccessMsg, FailedMsg} : Said(log, m)}) <= 1
    /\ Said(log, ManualMsg) <=> Said(log, FailedMsg)
    /\ Said(log, SuccessMsg) => Did(log, "unlinkSync", "ok") /\ Did(log, "rmdirSync", "ok")

C15_Witness ==
    /\ pc = "done"
    /\ Did(log, "unlinkSync", "ok")
    /\ Did(log, "rmdirSync", "ENOTEMPTY")
    /\ Said(log, FailedMsg)
    /\ ~Said(log, SuccessMsg)
    /\ ~Said(log, KeepMsg)

\* C16: when the confirmation was accepted and the file deletion succeeded
\* but the directory removal fails, the run ends with the file gone, the
\* directory still there, the failure and remediation messages emitted and no
\* success message.
C16_NoRollback ==
    pc = "done" /\ PassesGate(env) /\ answer = "yes" /\ StorePath \in fs0
                /\ StorePath \notin locked
                /\ (OtherEntry \in fs0 \/ ConfigDir \in locked) =>
        /\ StorePath \notin fs
        /\ ConfigDir \in fs
        /\ fs = fs0 \ {StorePath}
        /\ Remediation(log)
        /\ ~Said(log, SuccessMsg)
        /\ result = "resolved"

C16_Witness ==
    /\ pc = "done"
    /\ answer = "yes"
    /\ StorePath \in fs0
    /\ StorePath \notin fs
    /\ OtherEntry \in fs
    /\ ConfigDir \notin locked
    /\ Said(log, FailedMsg)

\* What a run with the file present does when the confirmation is declined.
DeclinedLog ==
    <<Ev("existsSync", StorePath, "true"), Ev("prompt", <<>>, "confirm"),
      Ev("console.log", <<>>, KeepMsg)>>

\* C17: a prompt that returns without an answer is handled as a declined
\* confirmation: the file and the directory are left as they were and the
\* informational message is printed.
C17_AbortIsDecline ==
    pc = "done" /\ answer = "abort" =>
        /\ fs = fs0
        /\ StorePath \in fs
        /\ log = DeclinedLog
        /\ result = "resolved"

C17_Witness ==
    /\ pc = "done"
    /\ answer = "abort"
    /\ StorePath \in fs
    /\ StorePath \notin locked
    /\ Said(log, KeepMsg)

\* C18: "uninstall" present, the file absent and the directory removal
\* successful: the run shows no prompt, prints none of the messages and
\* leaves no directory.
C18_SilentRun ==
    pc = "done" /\ HasUninstallToken(env) /\ StorePath \notin fs0
                /\ OtherEntry \notin fs0 /\ ConfigDir \notin locked =>
        /\ Count(log, "prompt") = 0
        /\ Count(log, "console.log") = 0
        /\ Did(log, "rmdirSync", "ok")
        /\ ConfigDir \notin fs
        /\ stderr = "none"
        /\ result = "resolved"

C18_Witness ==
    /\ pc = "done"
    /\ HasUninstallToken(env)
    /\ ConfigDir \in fs0
    /\ StorePath \notin fs0
    /\ log = <<Ev("existsSync", StorePath, "false"), Ev("rmdirSync", ConfigDir, "ok")>>

====
